---- MODULE Spec2Model ----
(***************************************************************************)
(* Indicator computation and refresh of market_data_new.                   *)
(*                                                                         *)
(* Numbers.  pandas works on IEEE doubles.  Here every float is a          *)
(* fixed-point integer counted in units of 1/Prec of a hundredth, so that  *)
(* a price of 1.23 is 123 * Prec.  Every division rounds to the nearest    *)
(* unit.  NaN is a distinguished value that every operation propagates,    *)
(* and every comparison with NaN is false, as in numpy.                    *)
(***************************************************************************)
EXTENDS Integers, Sequences, FiniteSets, TLC

\* ------------------------------------------------------------------------
\* Bounds of the model
\* ------------------------------------------------------------------------
Prec == 100
MaxBars == 3
MaxDate == 1
MaxFaults == 1
MaxSeries == 4
MaxPeriod == 3
MaxRun == 15

\* ------------------------------------------------------------------------
\* Floating point helpers
\* ------------------------------------------------------------------------
NaN == -999999999

\* the value v, evaluated once, handed to F
Eval(v, F(_)) == CHOOSE r \in {F(x) : x \in {v}} : TRUE

\* n / d rounded to the nearest integer, d > 0
DivR(n, d) == (2 * n + d) \div (2 * d)

\* n / d rounded half to even, d > 0
RoundHalfEven(n, d) ==
    Eval(<<n \div d, n % d>>, LAMBDA t :
        IF 2 * t[2] > d THEN t[1] + 1
        ELSE IF 2 * t[2] < d THEN t[1]
        ELSE IF t[1] % 2 = 0 THEN t[1] ELSE t[1] + 1)

\* Series.round(2): nearest hundredth, half to even, NaN kept
round2(x) == Eval(x, LAMBDA v : IF v = NaN THEN NaN ELSE RoundHalfEven(v, Prec) * Prec)

Abs(x) == Eval(x, LAMBDA v : IF v < 0 THEN 0 - v ELSE v)

RECURSIVE Pow(_, _)
Pow(b, e) == IF e = 0 THEN 1 ELSE b * Pow(b, e - 1)

RECURSIVE SqrtSearch(_, _, _)
SqrtSearch(v, lo, hi) ==
    IF lo >= hi THEN lo
    ELSE Eval((lo + hi + 1) \div 2, LAMBDA mid :
            IF mid * mid <= v THEN SqrtSearch(v, mid, hi)
            ELSE SqrtSearch(v, lo, mid - 1))

\* numpy sqrt, to the nearest unit
Sqrt(v) ==
    Eval(v, LAMBDA y :
        Eval(SqrtSearch(y, 0, 46340), LAMBDA f :
            IF y - f * f > f THEN f + 1 ELSE f))

\* ------------------------------------------------------------------------
\* pandas Series primitives (a Series is a sequence of values)
\* ------------------------------------------------------------------------
\* a function on 1..n as the Series of its values
Series(f) == f \o <<>>

Col(df, c) == Eval(df, LAMBDA d : Series([i \in 1..Len(d) |-> d[i][c] * Prec]))

shift(s) ==
    Eval(s, LAMBDA x : Series([i \in 1..Len(x) |-> IF i = 1 THEN NaN ELSE x[i - 1]]))

\* Series.diff(periods=-1): the difference to the following value
diff_forward(s) ==
    Eval(s, LAMBDA x : Series([i \in 1..Len(x) |->
        IF i = Len(x) \/ x[i] = NaN \/ x[i + 1] = NaN THEN NaN ELSE x[i + 1] - x[i]]))

diff(s) ==
    Eval(s, LAMBDA x : Series([i \in 1..Len(x) |->
        IF i = 1 \/ x[i] = NaN \/ x[i - 1] = NaN THEN NaN ELSE x[i] - x[i - 1]]))

clip_lower0(s) ==
    Eval(s, LAMBDA x : Series([i \in 1..Len(x) |->
        IF x[i] = NaN THEN NaN ELSE IF x[i] < 0 THEN 0 ELSE x[i]]))

clip_upper0(s) ==
    Eval(s, LAMBDA x : Series([i \in 1..Len(x) |->
        IF x[i] = NaN THEN NaN ELSE IF x[i] > 0 THEN 0 ELSE x[i]]))

neg(s) ==
    Eval(s, LAMBDA x : Series([i \in 1..Len(x) |->
        IF x[i] = NaN THEN NaN ELSE 0 - x[i]]))

ssub(a, b) ==
    Eval(<<a, b>>, LAMBDA t : Series([i \in 1..Len(t[1]) |->
        IF t[1][i] = NaN \/ t[2][i] = NaN THEN NaN ELSE t[1][i] - t[2][i]]))

sabs(s) ==
    Eval(s, LAMBDA x : Series([i \in 1..Len(x) |->
        IF x[i] = NaN THEN NaN ELSE Abs(x[i])]))

sround2(s) == Eval(s, LAMBDA x : Series([i \in 1..Len(x) |-> round2(x[i])]))

\* a fill that is left out
fillna_missing(s, v) == s

fillna(s, v) ==
    Eval(s, LAMBDA x : Series([i \in 1..Len(x) |-> IF x[i] = NaN THEN v ELSE x[i]]))

\* max(axis=1) of three columns, NaN skipped
Max2(a, b) ==
    Eval(<<a, b>>, LAMBDA t :
        IF t[1] = NaN THEN t[2] ELSE IF t[2] = NaN THEN t[1]
        ELSE IF t[1] > t[2] THEN t[1] ELSE t[2])
max3(a, b, c) ==
    Eval(<<a, b, c>>, LAMBDA t : Series([i \in 1..Len(t[1]) |->
        Max2(t[1][i], Max2(t[2][i], t[3][i]))]))

\* one step of ewm(adjust=False, ignore_na=False): the old average w, aged
\* over m steps, blended with the observation cur; alpha = an / ad
Blend(w, cur, an, ad, m) ==
    IF w = cur THEN w
    ELSE Eval(<<Pow(ad - an, m), an * Pow(ad, m - 1)>>, LAMBDA t :
            DivR(t[1] * w + t[2] * cur, t[1] + t[2]))

\* state of the ewm recursion after each position: the weighted average w,
\* the number k of NaN positions since the last observation and the number
\* nobs of observations so far
EwmState(x, an, ad) ==
    Eval(x, LAMBDA s :
        LET st[i \in 1..Len(s)] ==
                IF i = 1
                THEN [w |-> s[1], k |-> 0, nobs |-> IF s[1] = NaN THEN 0 ELSE 1]
                ELSE Eval(st[i - 1], LAMBDA p :
                        IF p.w # NaN
                        THEN IF s[i] # NaN
                             THEN [w |-> Blend(p.w, s[i], an, ad, p.k + 1),
                                   k |-> 0, nobs |-> p.nobs + 1]
                             ELSE [w |-> p.w, k |-> p.k + 1, nobs |-> p.nobs]
                        ELSE IF s[i] # NaN
                             THEN [w |-> s[i], k |-> 0, nobs |-> p.nobs + 1]
                             ELSE p)
        IN  Series(st))

\* Series.ewm(alpha=an/ad, adjust=False, min_periods=minp).mean()
ewm_mean(x, an, ad, minp) ==
    Eval(EwmState(x, an, ad), LAMBDA st :
        Series([i \in 1..Len(st) |-> IF st[i].nobs >= minp THEN st[i].w ELSE NaN]))

\* an ewm that waits for span observations before its first value
ewm_span_warm_up(x, span) == ewm_mean(x, 2, span + 1, span)

\* Series.ewm(span=span, adjust=False).mean(): alpha = 2 / (span + 1)
ewm_span(x, span) == ewm_mean(x, 2, span + 1, 0)

WindowHasNaN(s, i, period) == \E j \in (i - period + 1)..i : s[j] = NaN

RECURSIVE WindowSum(_, _, _)
WindowSum(s, lo, hi) == IF lo > hi THEN 0 ELSE s[lo] + WindowSum(s, lo + 1, hi)

\* Series.rolling(period).mean()
rolling_mean(s, period) ==
    Eval(s, LAMBDA x : Series([i \in 1..Len(x) |->
        IF i < period THEN NaN
        ELSE IF WindowHasNaN(x, i, period) THEN NaN
        ELSE DivR(WindowSum(x, i - period + 1, i), period)]))

\* sum over lo..hi of (n * s[j] - total)^2
RECURSIVE SqDevSum(_, _, _, _)
SqDevSum(s, lo, hi, total) ==
    IF lo > hi THEN 0
    ELSE Eval(total.n * s[lo] - total.sum, LAMBDA d :
            d * d + SqDevSum(s, lo + 1, hi, total))

\* Series.rolling(period).std(), ddof = 1
rolling_std(s, period) ==
    Eval(s, LAMBDA x : Series([i \in 1..Len(x) |->
        IF i < period \/ period < 2 THEN NaN
        ELSE IF WindowHasNaN(x, i, period) THEN NaN
        ELSE Eval([n |-> period, sum |-> WindowSum(x, i - period + 1, i)],
                  LAMBDA tot :
                    \* sum of (period * x - sum)^2
                    \*   = period^2 * sum of (x - mean)^2
                    Sqrt(DivR(SqDevSum(x, i - period + 1, i, tot),
                              period * period * (period - 1))))]))

RECURSIVE WeightedSum(_, _, _, _)
WeightedSum(s, lo, hi, w) ==
    IF lo > hi THEN 0 ELSE w * s[lo] + WeightedSum(s, lo + 1, hi, w + 1)

ffill(s) ==
    Eval(s, LAMBDA x :
        LET f[i \in 1..Len(x)] ==
                IF x[i] # NaN THEN x[i] ELSE IF i = 1 THEN NaN ELSE f[i - 1]
        IN  Series(f))

\* (Series.pct_change() * 100).round(2); the default fill_method pads NaN
pct_change_100(s) ==
    Eval(ffill(s), LAMBDA x : Series([i \in 1..Len(x) |->
        IF i = 1 THEN NaN
        ELSE IF x[i] = NaN \/ x[i - 1] = NaN \/ x[i - 1] <= 0 THEN NaN
        ELSE RoundHalfEven(10000 * (x[i] - x[i - 1]), x[i - 1]) * Prec]))

\* ------------------------------------------------------------------------
\* Indicator kernels (archive/indicators_helper.py)
\* ------------------------------------------------------------------------
Hundred == 10000 * Prec

calculate_rsi_series(close, period) ==
    Eval(diff(close), LAMBDA delta :
        Eval(<<ewm_mean(clip_lower0(delta), 1, period, period),
               ewm_mean(neg(clip_upper0(delta)), 1, period, period)>>,
             LAMBDA avg :
                LET avg_gain == avg[1]
                    avg_loss == avg[2]
                    \* rs = avg_gain / avg_loss.replace(0, nan);
                    \* rsi = 100 - 100 / (1 + rs), which is
                    \* 100 * avg_gain / (avg_gain + avg_loss); round(2)
                    rsi == [i \in 1..Len(delta) |->
                               IF avg_gain[i] = NaN \/ avg_loss[i] = NaN
                                  \/ avg_loss[i] = 0
                               THEN NaN
                               ELSE RoundHalfEven(10000 * avg_gain[i],
                                                  avg_gain[i] + avg_loss[i]) * Prec]
                IN  sround2(fillna(Series(rsi), Hundred))))

\* bands with the deviation added below and subtracted above
calculate_bollinger_crossed(close, period, std_mult) ==
    Eval(<<rolling_mean(close, period), rolling_std(close, period)>>, LAMBDA t :
        [upper |-> sround2(Series([i \in 1..Len(t[1]) |->
                      IF t[1][i] = NaN \/ t[2][i] = NaN THEN NaN
                      ELSE t[1][i] - std_mult * t[2][i]])),
         mid |-> sround2(t[1]),
         lower |-> sround2(Series([i \in 1..Len(t[1]) |->
                      IF t[1][i] = NaN \/ t[2][i] = NaN THEN NaN
                      ELSE t[1][i] + std_mult * t[2][i]]))])

calculate_bollinger(close, period, std_mult) ==
    Eval(<<rolling_mean(close, period), rolling_std(close, period)>>, LAMBDA t :
        LET mid == t[1]
            std == t[2]
            upper == [i \in 1..Len(mid) |->
                         IF mid[i] = NaN \/ std[i] = NaN THEN NaN
                         ELSE mid[i] + std_mult * std[i]]
            lower == [i \in 1..Len(mid) |->
                         IF mid[i] = NaN \/ std[i] = NaN THEN NaN
                         ELSE mid[i] - std_mult * std[i]]
        IN  [upper |-> sround2(Series(upper)), mid |-> sround2(mid),
             lower |-> sround2(Series(lower))])

true_range(df) ==
    Eval(<<Col(df, "high"), Col(df, "low"), shift(Col(df, "close"))>>, LAMBDA t :
        LET high == t[1]
            low == t[2]
            prev_close == t[3]
            high_low == ssub(high, low)
            high_close == sabs(ssub(high, prev_close))
            low_close == sabs(ssub(low, prev_close))
        IN  max3(high_low, high_close, low_close))

calculate_atr(df, period) ==
    sround2(ewm_mean(true_range(df), 1, period, period))

calculate_macd(close) ==
    Eval(ssub(ewm_span(close, 12), ewm_span(close, 26)), LAMBDA macd :
        [macd |-> sround2(macd), signal |-> sround2(ewm_span(macd, 9))])

\* the ratcheted bands of calculate_supertrend; a comparison with NaN is false
final_bands(df, atr_period, multiplier) ==
    Eval(<<calculate_atr(df, atr_period), Col(df, "close"),
           Col(df, "high"), Col(df, "low")>>, LAMBDA t :
        LET atr == t[1]
            close == t[2]
            hl2(i) == DivR(t[3][i] + t[4][i], 2)
            basic_ub(i) == IF atr[i] = NaN THEN NaN ELSE hl2(i) + multiplier * atr[i]
            basic_lb(i) == IF atr[i] = NaN THEN NaN ELSE hl2(i) - multiplier * atr[i]
            final_ub[i \in 1..Len(close)] ==
                IF i = 1 THEN basic_ub(1)
                ELSE Eval(<<final_ub[i - 1], basic_ub(i)>>, LAMBDA p :
                        IF (p[2] # NaN /\ p[1] # NaN /\ p[2] < p[1])
                           \/ (p[1] # NaN /\ close[i - 1] > p[1])
                        THEN p[2]
                        ELSE p[1])
            final_lb[i \in 1..Len(close)] ==
                IF i = 1 THEN basic_lb(1)
                ELSE Eval(<<final_lb[i - 1], basic_lb(i)>>, LAMBDA p :
                        IF (p[2] # NaN /\ p[1] # NaN /\ p[2] > p[1])
                           \/ (p[1] # NaN /\ close[i - 1] < p[1])
                        THEN p[2]
                        ELSE p[1])
        IN  [ub |-> Series(final_ub), lb |-> Series(final_lb)])

\* a selection that also turns up on a tie of close and previous supertrend
calculate_supertrend_tie_up(df, atr_period, multiplier) ==
    Eval(<<final_bands(df, atr_period, multiplier), Col(df, "close")>>, LAMBDA t :
        LET bands == t[1]
            close == t[2]
            st[i \in 1..Len(close)] ==
                IF i = 1 THEN [supertrend |-> bands.ub[1], direction |-> -1]
                ELSE Eval(st[i - 1].supertrend, LAMBDA prev_st :
                        IF prev_st # NaN /\ close[i] >= prev_st
                        THEN [supertrend |-> bands.lb[i], direction |-> 1]
                        ELSE [supertrend |-> bands.ub[i], direction |-> -1])
        IN  Eval(Series(st), LAMBDA r :
                [supertrend |-> Series([i \in 1..Len(r) |-> round2(r[i].supertrend)]),
                 direction |-> Series([i \in 1..Len(r) |-> r[i].direction])]))

calculate_supertrend(df, atr_period, multiplier) ==
    Eval(<<final_bands(df, atr_period, multiplier), Col(df, "close")>>, LAMBDA t :
        LET bands == t[1]
            close == t[2]
            st[i \in 1..Len(close)] ==
                IF i = 1 THEN [supertrend |-> bands.ub[1], direction |-> -1]
                ELSE Eval(st[i - 1].supertrend, LAMBDA prev_st :
                        IF prev_st # NaN /\ close[i] > prev_st
                        THEN [supertrend |-> bands.lb[i], direction |-> 1]
                        ELSE [supertrend |-> bands.ub[i], direction |-> -1])
        IN  Eval(Series(st), LAMBDA r :
                [supertrend |-> Series([i \in 1..Len(r) |-> round2(r[i].supertrend)]),
                 direction |-> Series([i \in 1..Len(r) |-> r[i].direction])]))

calculate_ema(series, period) == sround2(ewm_span(series, period))

calculate_wma(series, period) ==
    Eval(series, LAMBDA x : Series([i \in 1..Len(x) |->
        IF i < period THEN NaN
        ELSE IF WindowHasNaN(x, i, period) THEN NaN
        ELSE round2(DivR(WeightedSum(x, i - period + 1, i, 1),
                         (period * (period + 1)) \div 2))]))

\* ------------------------------------------------------------------------
\* The second set of kernels (services/indicators/utils.py, volatility.py,
\* trend.py): nothing is rounded, the ewm calls have no min_periods
\* ------------------------------------------------------------------------
sma(series, period) == rolling_mean(series, period)

ema(series, period) == ewm_span(series, period)

\* pd.concat([...], axis=1).max(axis=1)
tr(high, low, close) ==
    Eval(<<high, low, shift(close)>>, LAMBDA t :
        max3(ssub(t[1], t[2]), sabs(ssub(t[1], t[3])), sabs(ssub(t[2], t[3]))))

atr(high, low, close, period) == ewm_mean(tr(high, low, close), 1, period, 0)

bollinger_bands(close, period, std_mult) ==
    Eval(<<sma(close, period), rolling_std(close, period)>>, LAMBDA t :
        [upper |-> Series([i \in 1..Len(t[1]) |->
                      IF t[1][i] = NaN \/ t[2][i] = NaN THEN NaN
                      ELSE t[1][i] + std_mult * t[2][i]]),
         mid |-> t[1],
         lower |-> Series([i \in 1..Len(t[1]) |->
                      IF t[1][i] = NaN \/ t[2][i] = NaN THEN NaN
                      ELSE t[1][i] - std_mult * t[2][i]])])

macd(close, fast, slow, signal) ==
    Eval(ssub(ema(close, fast), ema(close, slow)), LAMBDA macd_line :
        Eval(ema(macd_line, signal), LAMBDA signal_line :
            [macd |-> macd_line, signal |-> signal_line,
             hist |-> ssub(macd_line, signal_line)]))

\* the first loop of supertrend; min and max return their first argument
\* unless the second compares smaller or greater
supertrend_bands(high, low, close, period, multiplier) ==
    Eval(<<atr(high, low, close, period), high, low, close>>, LAMBDA t :
        LET hl2(i) == DivR(t[2][i] + t[3][i], 2)
            upperband(i) == IF t[1][i] = NaN THEN NaN ELSE hl2(i) + multiplier * t[1][i]
            lowerband(i) == IF t[1][i] = NaN THEN NaN ELSE hl2(i) - multiplier * t[1][i]
            final_upper[i \in 1..Len(t[4])] ==
                IF i = 1 THEN upperband(1)
                ELSE Eval(<<final_upper[i - 1], upperband(i)>>, LAMBDA p :
                        IF p[1] # NaN /\ t[4][i - 1] <= p[1] THEN p[2]
                        ELSE IF p[1] # NaN /\ p[2] # NaN /\ p[1] < p[2] THEN p[1]
                        ELSE p[2])
            final_lower[i \in 1..Len(t[4])] ==
                IF i = 1 THEN lowerband(1)
                ELSE Eval(<<final_lower[i - 1], lowerband(i)>>, LAMBDA p :
                        IF p[1] # NaN /\ t[4][i - 1] >= p[1] THEN p[2]
                        ELSE IF p[1] # NaN /\ p[2] # NaN /\ p[1] > p[2] THEN p[1]
                        ELSE p[2])
        IN  [final_upper |-> Series(final_upper), final_lower |-> Series(final_lower)])

\* a selection that takes the upper band in an up trend and the lower band
\* in a down trend
supertrend_bands_swapped(high, low, close, period, multiplier) ==
    Eval(<<supertrend_bands(high, low, close, period, multiplier), close>>, LAMBDA t :
        LET trend[i \in 1..Len(t[2])] ==
                IF i = 1 THEN 1
                ELSE IF t[1].final_upper[i - 1] # NaN /\ t[2][i] > t[1].final_upper[i - 1]
                     THEN 1
                ELSE IF t[1].final_lower[i - 1] # NaN /\ t[2][i] < t[1].final_lower[i - 1]
                     THEN -1
                ELSE trend[i - 1]
        IN  Eval(Series(trend), LAMBDA d :
                [st |-> Series([i \in 1..Len(d) |->
                            IF d[i] = 1 THEN t[1].final_upper[i]
                            ELSE t[1].final_lower[i]]),
                 trend |-> d]))

supertrend(high, low, close, period, multiplier) ==
    Eval(<<supertrend_bands(high, low, close, period, multiplier), close>>, LAMBDA t :
        LET trend[i \in 1..Len(t[2])] ==
                IF i = 1 THEN 1
                ELSE IF t[1].final_upper[i - 1] # NaN /\ t[2][i] > t[1].final_upper[i - 1]
                     THEN 1
                ELSE IF t[1].final_lower[i - 1] # NaN /\ t[2][i] < t[1].final_lower[i - 1]
                     THEN -1
                ELSE trend[i - 1]
        IN  Eval(Series(trend), LAMBDA d :
                [st |-> Series([i \in 1..Len(d) |->
                            IF d[i] = 1 THEN t[1].final_lower[i]
                            ELSE t[1].final_upper[i]]),
                 trend |-> d]))

\* what the kernels of both sets return for one frame, one period and one
\* multiplier
KernelOutputs(df, period, multiplier) ==
    Eval(<<df, Col(df, "high"), Col(df, "low"), Col(df, "close")>>, LAMBDA t :
        [calculate_rsi_series |-> calculate_rsi_series(t[4], period),
         rsi_14 |-> calculate_rsi_series(t[4], 14),
         calculate_bollinger |-> calculate_bollinger(t[4], period, 2),
         bollinger_bands |-> bollinger_bands(t[4], period, 2),
         calculate_atr |-> calculate_atr(t[1], period),
         atr |-> atr(t[2], t[3], t[4], period),
         calculate_macd |-> calculate_macd(t[4]),
         macd |-> macd(t[4], 12, 26, 9),
         calculate_supertrend |-> calculate_supertrend(t[1], period, multiplier),
         supertrend |-> supertrend(t[2], t[3], t[4], period, multiplier),
         calculate_ema |-> calculate_ema(t[4], period),
         ema |-> ema(t[4], period)] @@ <<>>)

\* ------------------------------------------------------------------------
\* calculate_indicators (services/indicator_service.py)
\* ------------------------------------------------------------------------
IndicatorColumns ==
    <<"sma_20", "sma_50", "sma_200", "rsi_3", "rsi_9", "rsi_14",
      "bb_upper", "bb_middle", "bb_lower", "atr_14", "supertrend",
      "supertrend_dir", "ema_rsi_9_3", "wma_rsi_9_21", "pct_price_change",
      "macd", "macd_signal">>

\* the indicator columns that calculate_indicators adds to the data frame: one
\* record per bar
calculate_indicators(df) ==
    Eval(df, LAMBDA d :
    Eval(<<Col(d, "adj_close"), Col(d, "close")>>, LAMBDA px :
    Eval(calculate_rsi_series(px[2], 9), LAMBDA rsi_9 :
    Eval([sma_20 |-> sround2(rolling_mean(px[1], 20)),
          sma_50 |-> sround2(rolling_mean(px[1], 50)),
          sma_200 |-> sround2(rolling_mean(px[1], 200)),
          rsi_3 |-> calculate_rsi_series(px[2], 3),
          rsi_14 |-> calculate_rsi_series(px[2], 14),
          ema_rsi_9_3 |-> calculate_ema(rsi_9, 3),
          wma_rsi_9_21 |-> calculate_wma(rsi_9, 21),
          bb |-> calculate_bollinger(px[2], 20, 2),
          atr_14 |-> calculate_atr(d, 14),
          st |-> calculate_supertrend(d, 10, 3),
          md |-> calculate_macd(px[2]),
          pct |-> pct_change_100(px[1])], LAMBDA c :
        Series([i \in 1..Len(d) |->
            [sma_20 |-> c.sma_20[i], sma_50 |-> c.sma_50[i],
             sma_200 |-> c.sma_200[i],
             rsi_3 |-> c.rsi_3[i], rsi_9 |-> rsi_9[i], rsi_14 |-> c.rsi_14[i],
             ema_rsi_9_3 |-> c.ema_rsi_9_3[i],
             wma_rsi_9_21 |-> c.wma_rsi_9_21[i],
             bb_upper |-> c.bb.upper[i], bb_middle |-> c.bb.mid[i],
             bb_lower |-> c.bb.lower[i], atr_14 |-> c.atr_14[i],
             supertrend |-> c.st.supertrend[i],
             supertrend_dir |-> c.st.direction[i],
             macd |-> c.md.macd[i], macd_signal |-> c.md.signal[i],
             pct_price_change |-> c.pct[i]]])))))

\* ------------------------------------------------------------------------
\* The database (create_db.py, db/sql.py)
\* ------------------------------------------------------------------------
FREQUENCIES == <<"1d", "1wk", "1mo">>

\* rows of equity_symbols and index_symbols, in the order the SELECT returns
EquitySymbols == <<1, 2>>
IndexSymbols == <<1>>

\* dates count days from Monday 2024-01-01
Dates == 0..MaxDate
IsMonday(d) == d % 7 = 0
IsFirstOfMonth(d) == d % 31 = 0

\* the series that receive price bars in the model: table, id, timeframe
Feeds ==
    { [is_index |-> FALSE, id |-> 1, timeframe |-> "1d"],
      [is_index |-> TRUE, id |-> 1, timeframe |-> "1d"],
      [is_index |-> TRUE, id |-> 1, timeframe |-> "1wk"] }

\* prices of a bar, in hundredths
Quotes ==
    << [high |-> 120, low |-> 100, close |-> 110, adj_close |-> 110],
       [high |-> 130, low |-> 110, close |-> 125, adj_close |-> 124],
       [high |-> 128, low |-> 115, close |-> 120, adj_close |-> 119] >>

\* the prices that the feed delivers for a date
Quote(d) == Quotes[(d % Len(Quotes)) + 1]

Range(f) == {f[i] : i \in DOMAIN f}
Pos(seq, c) == CHOOSE i \in DOMAIN seq : seq[i] = c

KeyColumns == {"id", "timeframe", "date"}

\* columns of CREATE TABLE equity_indicators / index_indicators
TableColumns(table) ==
    IF table = "equity_indicators"
    THEN KeyColumns \cup Range(IndicatorColumns) \cup {"is_final"}
    ELSE KeyColumns \cup Range(IndicatorColumns)

\* DEFAULT clause of a column that the statement does not name
ColumnDefault(c) == IF c = "is_final" THEN 1 ELSE NaN

\* SQL_INSERT: the column list, the number of ? placeholders, the ON CONFLICT
\* target and the columns assigned by DO UPDATE SET
SQL_INSERT ==
    [equity |->
        [columns |-> <<"id", "timeframe", "date",
                       "sma_20", "sma_50", "sma_200",
                       "rsi_3", "rsi_9", "rsi_14",
                       "bb_upper", "bb_middle", "bb_lower",
                       "atr_14", "supertrend", "supertrend_dir",
                       "ema_rsi_9_3", "wma_rsi_9_21", "pct_price_change",
                       "macd", "macd_signal">>,
         placeholders |-> 20,
         conflict |-> {"id", "timeframe", "date"},
         update |-> {"sma_20", "sma_50", "sma_200", "rsi_3", "rsi_9", "rsi_14",
                     "bb_upper", "bb_middle", "bb_lower", "atr_14",
                     "supertrend", "supertrend_dir", "ema_rsi_9_3",
                     "wma_rsi_9_21", "pct_price_change", "macd", "macd_signal"}],
     index |->
        [columns |-> <<"id", "timeframe", "date",
                       "sma_20", "sma_50", "sma_200",
                       "rsi_3", "rsi_9", "rsi_14",
                       "bb_upper", "bb_middle", "bb_lower",
                       "atr_14", "supertrend", "supertrend_dir",
                       "ema_rsi_9_3", "wma_rsi_9_21", "pct_price_change",
                       "macd", "macd_signal">>,
         placeholders |-> 20,
         conflict |-> {"id", "timeframe", "date"},
         update |-> {"sma_20", "sma_50", "sma_200", "rsi_3", "rsi_9", "rsi_14",
                     "bb_upper", "bb_middle", "bb_lower", "atr_14",
                     "supertrend", "supertrend_dir", "ema_rsi_9_3",
                     "wma_rsi_9_21", "pct_price_change", "macd", "macd_signal"}]]

\* the stored row after ON CONFLICT ... DO UPDATE SET: the assigned columns
\* take the excluded (new) values, every other column keeps the old one
ConflictUpdate(old, new, stmt) ==
    [c \in DOMAIN old |-> IF c \in stmt.update THEN new[c] ELSE old[c]]

\* a plain INSERT without the ON CONFLICT clause on a table without unique
\* index: an existing row with the key is left in place beside the new one
execute_without_conflict(rows, stmt, table, rec) ==
    Eval(<<rows, rec>>, LAMBDA a :
        IF Len(a[2]) # stmt.placeholders
        THEN [raised |-> TRUE, rows |-> a[1]]
        ELSE [raised |-> FALSE,
              rows |-> a[1] \cup {[c \in TableColumns(table) |->
                          IF c \in Range(stmt.columns)
                          THEN a[2][Pos(stmt.columns, c)]
                          ELSE ColumnDefault(c)]}])

\* cursor.execute(stmt, rec) on the rows of a table: raises when the number
\* of bindings is not the number of placeholders, else inserts or updates
execute(rows, stmt, table, rec) ==
    Eval(<<rows, rec>>, LAMBDA a :
        IF Len(a[2]) # stmt.placeholders
        THEN [raised |-> TRUE, rows |-> a[1]]
        ELSE Eval([c \in Range(stmt.columns) |-> a[2][Pos(stmt.columns, c)]] @@ <<>>,
                  LAMBDA new :
            Eval({r \in a[1] : \A c \in stmt.conflict : r[c] = new[c]},
                 LAMBDA hit :
                [raised |-> FALSE,
                 rows |-> IF hit = {}
                          THEN a[1] \cup
                               {[c \in TableColumns(table) |->
                                   IF c \in DOMAIN new THEN new[c]
                                   ELSE ColumnDefault(c)]}
                          ELSE (a[1] \ hit) \cup
                               {ConflictUpdate(r, new, stmt) : r \in hit}])))

\* cursor.executemany(stmt, records) limited to the first n records: stops at
\* the first record that raises and keeps what the earlier records wrote;
\* done counts the records that were executed
RECURSIVE executemany(_, _, _, _, _)
executemany(rows, stmt, table, records, n) ==
    IF n = 0 THEN [raised |-> FALSE, rows |-> rows, done |-> 0]
    ELSE Eval(executemany(rows, stmt, table, records, n - 1), LAMBDA before :
            IF before.raised THEN before
            ELSE Eval(execute(before.rows, stmt, table, records[n]), LAMBDA step :
                    [raised |-> step.raised, rows |-> step.rows,
                     done |-> IF step.raised THEN before.done ELSE n]))

RowKey(r) == [id |-> r.id, timeframe |-> r.timeframe, date |-> r.date]

\* SELECT ... WHERE id = ? AND timeframe = ? ORDER BY date
RECURSIVE OrderByDate(_)
OrderByDate(rows) ==
    Eval(rows, LAMBDA rs :
        IF rs = {} THEN <<>>
        ELSE Eval(CHOOSE r \in rs : \A o \in rs : r.date <= o.date, LAMBDA first :
                <<first>> \o OrderByDate(rs \ {first})))

\* a load that keeps only the latest bar of the series
read_sql_latest_only(rows, symbol_id, timeframe) ==
    Eval(OrderByDate({r \in rows : r.id = symbol_id /\ r.timeframe = timeframe}),
         LAMBDA all : IF all = <<>> THEN <<>> ELSE <<all[Len(all)]>>)

\* a load that forgets the timeframe of the WHERE clause
read_sql_any_timeframe(rows, symbol_id, timeframe) ==
    OrderByDate({r \in rows : r.id = symbol_id})

read_sql(rows, symbol_id, timeframe) ==
    OrderByDate({r \in rows : r.id = symbol_id /\ r.timeframe = timeframe})

\* ------------------------------------------------------------------------
\* State
\* ------------------------------------------------------------------------
VARIABLES
    db,                 \* committed rows of the four tables
    tx,                 \* the indicator tables as the refresh connection sees
                        \* them: db plus its uncommitted writes
    pc,                 \* "idle", "equities", "indices" or "done"
    tfi,                \* position of the timeframe loop in FREQUENCIES
    idx,                \* position of the symbol loop (enumerate, start=1)
    inserted_rows,      \* counters of the current timeframe
    processed_symbols,
    report,             \* the DONE lines printed by the current run
    attempted,          \* history: the units the current run has entered
    executed,           \* history: keys whose upsert ran in the current run
    open,               \* history: executed keys that are not yet committed
    committed,          \* history: keys committed by the current run
    start,              \* history: the indicator tables when the run began
    rerun,              \* history: the run follows a run without fault, with
                        \* no change of the price tables in between
    faults,             \* history: injected failures of the current run
    dfA, dfB,           \* two price series for calculate_indicators
    upserted,           \* the last row handed to the upsert statement
    kern,               \* a frame, a period and a multiplier with what every
                        \* kernel returns for them
    proc                \* the call of refresh_indicators: the names conn and
                        \* cur, the closes of the connection, how the call
                        \* ended, the units in which a kernel raised

dbVars == <<db, tx>>
loopVars == <<pc, tfi, idx, inserted_rows, processed_symbols, report>>
histVars == <<attempted, executed, open, committed, start, rerun, faults, proc>>
calcVars == <<dfA, dfB>>
vars == <<db, tx, pc, tfi, idx, inserted_rows, processed_symbols, report,
          attempted, executed, open, committed, start, rerun, faults,
          dfA, dfB, upserted, kern, proc>>

\* no call of refresh_indicators: conn and cur are not bound
NoProc ==
    [conn |-> "unbound", cur |-> FALSE, closes |-> 0, exit |-> "none",
     kernel_raised |-> {}]

IndicatorTables(d) ==
    [equity_indicators |-> d.equity_indicators,
     index_indicators |-> d.index_indicators]

Init ==
    /\ db = [equity_price_data |-> {}, index_price_data |-> {},
             equity_indicators |-> {}, index_indicators |-> {}]
    /\ tx = [equity_indicators |-> {}, index_indicators |-> {}]
    /\ pc = "idle"
    /\ tfi = 1
    /\ idx = 1
    /\ inserted_rows = 0
    /\ processed_symbols = 0
    /\ report = <<>>
    /\ attempted = <<>>
    /\ executed = {}
    /\ open = {}
    /\ committed = {}
    /\ start = [equity_indicators |-> {}, index_indicators |-> {}]
    /\ rerun = FALSE
    /\ faults = 0
    /\ dfA = <<>>
    /\ dfB = <<>>
    /\ upserted = [table |-> "none"]
    /\ kern = [df |-> <<>>, period |-> 1, multiplier |-> 1,
               out |-> KernelOutputs(<<>>, 1, 1)]
    /\ proc = NoProc

\* ------------------------------------------------------------------------
\* refresh_indicators (services/indicator_service.py)
\* ------------------------------------------------------------------------
\* the names bound at the head of PART 1 and PART 2
Part(p) ==
    IF p = "equities"
    THEN [symbol_ids |-> EquitySymbols, price_table |-> "equity_price_data",
          indicator_table |-> "equity_indicators", sql |-> "equity"]
    ELSE [symbol_ids |-> IndexSymbols, price_table |-> "index_price_data",
          indicator_table |-> "index_indicators", sql |-> "index"]

\* the tuple built for one row of the data frame
equity_record(symbol_id, timeframe, row, ind) ==
    <<symbol_id, timeframe, row.date, row.is_final,
      ind.sma_20, ind.sma_50, ind.sma_200,
      ind.rsi_3, ind.rsi_9, ind.rsi_14,
      ind.bb_upper, ind.bb_middle, ind.bb_lower,
      ind.atr_14, ind.supertrend, ind.supertrend_dir,
      ind.ema_rsi_9_3, ind.wma_rsi_9_21, ind.pct_price_change,
      ind.macd, ind.macd_signal>>

index_record(symbol_id, timeframe, row, ind) ==
    <<symbol_id, timeframe, row.date,
      ind.sma_20, ind.sma_50, ind.sma_200,
      ind.rsi_3, ind.rsi_9, ind.rsi_14,
      ind.bb_upper, ind.bb_middle, ind.bb_lower,
      ind.atr_14, ind.supertrend, ind.supertrend_dir,
      ind.ema_rsi_9_3, ind.wma_rsi_9_21, ind.pct_price_change,
      ind.macd, ind.macd_signal>>

\* records built for the latest bar only
records_latest_only(p, symbol_id, timeframe, df) ==
    Eval(<<df, calculate_indicators(df)>>, LAMBDA f :
        Series([i \in 1..(IF f[1] = <<>> THEN 0 ELSE 1) |->
            IF p = "equities"
            THEN equity_record(symbol_id, timeframe, f[1][Len(f[1])], f[2][Len(f[1])])
            ELSE index_record(symbol_id, timeframe, f[1][Len(f[1])], f[2][Len(f[1])])]))

records(p, symbol_id, timeframe, df) ==
    Eval(<<df, calculate_indicators(df)>>, LAMBDA f :
        Series([i \in 1..Len(f[1]) |->
            IF p = "equities"
            THEN equity_record(symbol_id, timeframe, f[1][i], f[2][i])
            ELSE index_record(symbol_id, timeframe, f[1][i], f[2][i])]))

\* the columns that a kernel call of calculate_indicators assigns and that
\* no later call reads
KernelColumns(kernel) ==
    IF kernel = "calculate_bollinger" THEN {"bb_upper", "bb_middle", "bb_lower"}
    ELSE IF kernel = "calculate_macd" THEN {"macd", "macd_signal"}
    ELSE {"atr_14"}

\* calculate_indicators when the named kernel raises: its except clause
\* returns pd.Series(index=..., dtype=float), all NaN, for each of its
\* results, and calculate_indicators assigns them like any other result
calculate_indicators_kernel_raises(df, kernel) ==
    Eval(calculate_indicators(df), LAMBDA ind :
        Series([i \in 1..Len(ind) |->
            [c \in DOMAIN ind[i] |->
                IF c \in KernelColumns(kernel) THEN NaN ELSE ind[i][c]] @@ <<>>]))

records_kernel_raises(p, symbol_id, timeframe, df, kernel) ==
    Eval(<<df, calculate_indicators_kernel_raises(df, kernel)>>, LAMBDA f :
        Series([i \in 1..Len(f[1]) |->
            IF p = "equities"
            THEN equity_record(symbol_id, timeframe, f[1][i], f[2][i])
            ELSE index_record(symbol_id, timeframe, f[1][i], f[2][i])]))

\* a commit that is left out: the committed state stays what it was
commit_missing(d, t) == d

\* a commit that also clears the price bars it has consumed
commit_consuming_prices(d, t) ==
    [d EXCEPT !.equity_indicators = t.equity_indicators,
              !.index_indicators = t.index_indicators,
              !.index_price_data = {}]

\* conn.commit(): what the connection wrote becomes the committed state
commit(d, t) ==
    [d EXCEPT !.equity_indicators = t.equity_indicators,
              !.index_indicators = t.index_indicators]

\* an error that ends the symbol loop of the timeframe
next_after_error_break(i, n) == n + 1

\* except Exception: the error is printed and the symbol loop goes on
next_after_error(i, n) == i + 1

Running == pc \in {"equities", "indices"}
Idle == pc \in {"idle", "done"}
InLoop ==
    /\ Running
    /\ tfi <= Len(FREQUENCIES)
    /\ idx <= Len(Part(pc).symbol_ids)

CurTimeframe == FREQUENCIES[tfi]
CurSymbol == Part(pc).symbol_ids[idx]
CurFrame == read_sql(db[Part(pc).price_table], CurSymbol, CurTimeframe)
Unit(outcome) ==
    [part |-> pc, timeframe |-> CurTimeframe, id |-> CurSymbol,
     outcome |-> outcome]
TKey(table, symbol_id, timeframe, date) ==
    [table |-> table, id |-> symbol_id, timeframe |-> timeframe, date |-> date]
FrameKeys(n) ==
    Eval(CurFrame, LAMBDA df :
        {TKey(Part(pc).indicator_table, CurSymbol, CurTimeframe, df[i].date) :
            i \in 1..n})

HistInit ==
    /\ attempted' = <<>>
    /\ executed' = {}
    /\ open' = {}
    /\ committed' = {}
    /\ start' = [equity_indicators |-> {}, index_indicators |-> {}]
    /\ rerun' = FALSE
    /\ faults' = 0
    /\ proc' = NoProc

LoopInit ==
    /\ tfi' = 1
    /\ idx' = 1
    /\ inserted_rows' = 0
    /\ processed_symbols' = 0
    /\ report' = <<>>

\* conn = get_db_connection(); the symbol ids are loaded; first timeframe
StartRefresh ==
    /\ Idle
    /\ pc' = "equities"
    /\ tfi' = 1
    /\ idx' = 1
    /\ inserted_rows' = 0
    /\ processed_symbols' = 0
    /\ report' = <<>>
    /\ tx' = IndicatorTables(db)
    /\ attempted' = <<>>
    /\ executed' = {}
    /\ open' = {}
    /\ committed' = {}
    /\ start' = IndicatorTables(db)
    /\ rerun' = (pc = "done" /\ faults = 0)
    /\ faults' = 0
    /\ proc' = [NoProc EXCEPT !.conn = "open", !.cur = TRUE]
    /\ UNCHANGED <<db, dfA, dfB, upserted, kern>>

\* if df.empty: continue
UnitEmpty ==
    /\ InLoop
    /\ CurFrame = <<>>
    /\ idx' = idx + 1
    /\ attempted' = Append(attempted, Unit("empty"))
    /\ UNCHANGED <<db, tx, pc, tfi, inserted_rows, processed_symbols, report,
                   executed, open, committed, start, rerun, faults,
                   dfA, dfB, upserted, kern, proc>>

\* the try body runs to its end: every record is upserted and the
\* transaction is committed
UnitCommit ==
    /\ InLoop
    /\ CurFrame # <<>>
    /\ \E recs \in {records(pc, CurSymbol, CurTimeframe, CurFrame)} :
       \E res \in {executemany(tx[Part(pc).indicator_table], SQL_INSERT[Part(pc).sql],
                                Part(pc).indicator_table, recs, Len(recs))} :
       \E after \in {[tx EXCEPT ![Part(pc).indicator_table] = res.rows]} :
           /\ ~res.raised
           /\ tx' = after
           /\ db' = commit(db, after)
           /\ inserted_rows' = inserted_rows + Len(recs)
           /\ processed_symbols' = processed_symbols + 1
           /\ executed' = executed \cup FrameKeys(Len(recs))
           /\ committed' = committed \cup open \cup FrameKeys(Len(recs))
           /\ open' = {}
    /\ idx' = idx + 1
    /\ attempted' = Append(attempted, Unit("ok"))
    /\ UNCHANGED <<pc, tfi, report, start, rerun, faults, dfA, dfB, upserted, kern, proc>>

\* the try body raises after j records were handed to executemany: either a
\* record does not bind (then j is the whole list), or a failure of the
\* storage is injected (j = 0: before any write, j = all: in commit)
UnitRaises(j) ==
    /\ InLoop
    /\ CurFrame # <<>>
    /\ j \in 0..Len(CurFrame)
    /\ \E recs \in {records(pc, CurSymbol, CurTimeframe, CurFrame)} :
       \E res \in {executemany(tx[Part(pc).indicator_table], SQL_INSERT[Part(pc).sql],
                                Part(pc).indicator_table, recs, j)} :
           /\ \/ res.raised /\ j = Len(recs) /\ faults' = faults
              \/ ~res.raised /\ faults < MaxFaults /\ faults' = faults + 1
           /\ tx' = [tx EXCEPT ![Part(pc).indicator_table] = res.rows]
           /\ executed' = executed \cup FrameKeys(res.done)
           /\ open' = open \cup FrameKeys(res.done)
    /\ idx' = next_after_error(idx, Len(Part(pc).symbol_ids))
    /\ attempted' = Append(attempted, Unit("error"))
    /\ UNCHANGED <<db, pc, tfi, inserted_rows, processed_symbols, report,
                   committed, start, rerun, dfA, dfB, upserted, kern, proc>>

\* a DONE line whose counters run on into the next timeframe
TimeframeDone_counters_kept ==
    /\ Running
    /\ tfi <= Len(FREQUENCIES)
    /\ idx > Len(Part(pc).symbol_ids)
    /\ report' = Append(report, [part |-> pc, timeframe |-> CurTimeframe,
                                 symbols |-> processed_symbols,
                                 rows |-> inserted_rows])
    /\ tfi' = tfi + 1
    /\ idx' = 1
    /\ UNCHANGED <<db, tx, pc, inserted_rows, processed_symbols, attempted,
                   executed, open, committed, start, rerun, faults, dfA, dfB,
                   upserted, kern, proc>>

\* the symbol loop is over: the DONE line is printed, next timeframe
TimeframeDone ==
    /\ Running
    /\ tfi <= Len(FREQUENCIES)
    /\ idx > Len(Part(pc).symbol_ids)
    /\ report' = Append(report, [part |-> pc, timeframe |-> CurTimeframe,
                                 symbols |-> processed_symbols,
                                 rows |-> inserted_rows])
    /\ tfi' = tfi + 1
    /\ idx' = 1
    /\ inserted_rows' = IF tfi < Len(FREQUENCIES) THEN 0 ELSE inserted_rows
    /\ processed_symbols' = IF tfi < Len(FREQUENCIES) THEN 0 ELSE processed_symbols
    /\ UNCHANGED <<db, tx, pc, attempted, executed, open, committed, start,
                   rerun, faults, dfA, dfB, upserted, kern, proc>>

\* a function that returns when PART 1 is over
EquitiesDone_return ==
    /\ pc = "equities"
    /\ tfi > Len(FREQUENCIES)
    /\ pc' = "done"
    /\ tx' = IndicatorTables(db)
    /\ open' = {}
    /\ proc' = [proc EXCEPT !.conn = "closed", !.closes = @ + 1, !.exit = "returned"]
    /\ UNCHANGED <<db, tfi, idx, inserted_rows, processed_symbols, report,
                   attempted, executed, committed, start, rerun, faults,
                   dfA, dfB, upserted, kern>>

\* PART 1 is over, PART 2 starts on the same connection
EquitiesDone ==
    /\ pc = "equities"
    /\ tfi > Len(FREQUENCIES)
    /\ pc' = "indices"
    /\ tfi' = 1
    /\ idx' = 1
    /\ inserted_rows' = 0
    /\ processed_symbols' = 0
    /\ UNCHANGED <<db, tx, report, attempted, executed, open, committed, start,
                   rerun, faults, dfA, dfB, upserted, kern, proc>>

\* finally: cur.close(); close_db_connection(conn) -- closing the connection
\* drops what was written and not committed
FinishRefresh ==
    /\ pc = "indices"
    /\ tfi > Len(FREQUENCIES)
    /\ pc' = "done"
    /\ tx' = IndicatorTables(db)
    /\ open' = {}
    /\ proc' = [proc EXCEPT !.conn = "closed", !.closes = @ + 1, !.exit = "returned"]
    /\ UNCHANGED <<db, tfi, idx, inserted_rows, processed_symbols, report,
                   attempted, executed, committed, start, rerun, faults,
                   dfA, dfB, upserted, kern>>

\* the process dies during a run: the open transaction is lost
Crash ==
    /\ Running
    /\ pc' = "idle"
    /\ tx' = IndicatorTables(db)
    /\ LoopInit
    /\ HistInit
    /\ UNCHANGED <<db, dfA, dfB, upserted, kern>>

\* a kernel raises while the indicators of the unit are computed: the try
\* body goes on with the records and the upsert
UnitKernelRaises(kernel) ==
    /\ InLoop
    /\ CurFrame # <<>>
    /\ faults < MaxFaults
    /\ \E table \in {Part(pc).indicator_table} :
       \E recs \in {records_kernel_raises(pc, CurSymbol, CurTimeframe, CurFrame, kernel)} :
       \E res \in {executemany(tx[table], SQL_INSERT[Part(pc).sql], table, recs, Len(recs))} :
       \E after \in {[tx EXCEPT ![table] = res.rows]} :
           /\ tx' = after
           /\ executed' = executed \cup FrameKeys(res.done)
           /\ IF res.raised
              THEN /\ open' = open \cup FrameKeys(res.done)
                   /\ attempted' = Append(attempted, Unit("error"))
                   /\ UNCHANGED <<db, inserted_rows, processed_symbols, committed>>
              ELSE /\ db' = commit(db, after)
                   /\ inserted_rows' = inserted_rows + Len(recs)
                   /\ processed_symbols' = processed_symbols + 1
                   /\ committed' = committed \cup open \cup FrameKeys(Len(recs))
                   /\ open' = {}
                   /\ attempted' = Append(attempted, Unit("ok"))
    /\ idx' = idx + 1
    /\ faults' = faults + 1
    /\ proc' = [proc EXCEPT !.kernel_raised =
                    @ \cup {[part |-> pc, timeframe |-> CurTimeframe, id |-> CurSymbol]}]
    /\ UNCHANGED <<pc, tfi, report, start, rerun, dfA, dfB, upserted, kern>>

\* get_db_connection() raises at the head of PART 1: conn and cur are not
\* bound, the except clause of PART 1 prints the failure
OpenRaises ==
    /\ Idle
    /\ pc' = "part2"
    /\ LoopInit
    /\ tx' = IndicatorTables(db)
    /\ attempted' = <<>>
    /\ executed' = {}
    /\ open' = {}
    /\ committed' = {}
    /\ start' = IndicatorTables(db)
    /\ rerun' = FALSE
    /\ faults' = MaxFaults
    /\ proc' = NoProc
    /\ UNCHANGED <<db, dfA, dfB, upserted, kern>>

\* the SELECT of the equity symbol ids raises: conn and cur are bound, the
\* except clause of PART 1 prints the failure
SymbolsRaise ==
    /\ Idle
    /\ pc' = "part2"
    /\ LoopInit
    /\ tx' = IndicatorTables(db)
    /\ attempted' = <<>>
    /\ executed' = {}
    /\ open' = {}
    /\ committed' = {}
    /\ start' = IndicatorTables(db)
    /\ rerun' = FALSE
    /\ faults' = MaxFaults
    /\ proc' = [NoProc EXCEPT !.conn = "open", !.cur = TRUE]
    /\ UNCHANGED <<db, dfA, dfB, upserted, kern>>

\* PART 2 after a critical failure of PART 1: cur = conn.cursor() raises
\* UnboundLocalError when conn is not bound, and the except clause of PART 2
\* prints it; else the index symbols are loaded and the loops start
Part2 ==
    /\ pc = "part2"
    /\ pc' = IF proc.conn = "unbound" THEN "finally" ELSE "indices"
    /\ UNCHANGED <<db, tx, tfi, idx, inserted_rows, processed_symbols, report,
                   attempted, executed, open, committed, start, rerun, faults,
                   dfA, dfB, upserted, kern, proc>>

\* the SELECT of the index symbol ids raises at the head of PART 2
IndexSymbolsRaise ==
    /\ pc = "equities"
    /\ tfi > Len(FREQUENCIES)
    /\ faults < MaxFaults
    /\ faults' = faults + 1
    /\ pc' = "finally"
    /\ UNCHANGED <<db, tx, tfi, idx, inserted_rows, processed_symbols, report,
                   attempted, executed, open, committed, start, rerun,
                   dfA, dfB, upserted, kern, proc>>

\* finally: cur.close() raises UnboundLocalError out of the function when
\* cur is not bound; else the cursor and the connection are closed
Finally ==
    /\ pc = "finally"
    /\ pc' = "done"
    /\ tx' = IndicatorTables(db)
    /\ open' = {}
    /\ proc' = IF proc.cur
               THEN [proc EXCEPT !.conn = "closed", !.closes = @ + 1, !.exit = "returned"]
               ELSE [proc EXCEPT !.exit = "raised"]
    /\ UNCHANGED <<db, tfi, idx, inserted_rows, processed_symbols, report,
                   attempted, executed, committed, start, rerun, faults,
                   dfA, dfB, upserted, kern>>

\* ------------------------------------------------------------------------
\* Price import and clean-up (equity_service.py, index_service.py,
\* weekly_monthly_service.py, cleanup_service.py)
\* ------------------------------------------------------------------------
\* INSERT INTO <price table> ... ON CONFLICT DO UPDATE SET open, high, low,
\* close, adj_close: one row of a CSV file; is_final is 1 on insert only
price_upsert(rows, is_index, symbol_id, timeframe, date, q) ==
    Eval(rows, LAMBDA rs :
    LET hit == {r \in rs : r.id = symbol_id /\ r.timeframe = timeframe
                            /\ r.date = date}
        ins == IF is_index
               THEN [id |-> symbol_id, timeframe |-> timeframe, date |-> date,
                     high |-> q.high, low |-> q.low, close |-> q.close,
                     adj_close |-> q.adj_close]
               ELSE [id |-> symbol_id, timeframe |-> timeframe, date |-> date,
                     high |-> q.high, low |-> q.low, close |-> q.close,
                     adj_close |-> q.adj_close, is_final |-> 1]
    IN  IF hit = {} THEN rs \cup {ins}
        ELSE (rs \ hit) \cup
             {[r EXCEPT !.high = q.high, !.low = q.low, !.close = q.close,
                        !.adj_close = q.adj_close] : r \in hit})

PriceTable(is_index) == IF is_index THEN "index_price_data" ELSE "equity_price_data"

ImportBar(is_index, symbol_id, timeframe, date, q) ==
    /\ Idle
    /\ \E after \in {[db EXCEPT ![PriceTable(is_index)] =
                        price_upsert(db[PriceTable(is_index)], is_index,
                                     symbol_id, timeframe, date, q)]} :
           /\ Cardinality(after.equity_price_data)
                + Cardinality(after.index_price_data) <= MaxBars
           /\ db' = after
    /\ pc' = "idle"
    /\ LoopInit
    /\ HistInit
    /\ UNCHANGED <<tx, dfA, dfB, upserted, kern>>

\* the rule of delete_invalid_timeframe_rows: the rows that are deleted
invalid_date(timeframe, date) ==
    IF timeframe = "1wk" THEN ~IsMonday(date) ELSE ~IsFirstOfMonth(date)

delete_invalid_timeframe_rows(d, timeframe, data_type, is_index) ==
    LET table == IF data_type = "price"
                 THEN (IF is_index THEN "index_price_data" ELSE "equity_price_data")
                 ELSE (IF is_index THEN "index_indicators" ELSE "equity_indicators")
    IN  [d EXCEPT ![table] =
            {r \in d[table] :
                ~(r.timeframe = timeframe /\ invalid_date(timeframe, r.date))}]

\* incr_yahoo_bhavcopy_download calls it for the price tables only
DeleteInvalid(timeframe, is_index) ==
    /\ Idle
    /\ timeframe \in {"1wk", "1mo"}
    /\ db' = delete_invalid_timeframe_rows(db, timeframe, "price", is_index)
    /\ tx' = IndicatorTables(db')
    /\ pc' = "idle"
    /\ LoopInit
    /\ HistInit
    /\ UNCHANGED <<dfA, dfB, upserted, kern>>

Next ==
    \/ StartRefresh
    \/ UnitEmpty
    \/ UnitCommit
    \/ \E j \in 0..(MaxDate + 1) : UnitRaises(j)
    \/ TimeframeDone
    \/ EquitiesDone
    \/ FinishRefresh
    \/ Crash
    \/ \E f \in Feeds, d \in Dates :
            ImportBar(f.is_index, f.id, f.timeframe, d, Quote(d))
    \/ \E tf \in {"1wk", "1mo"}, is_index \in BOOLEAN : DeleteInvalid(tf, is_index)

Spec == Init /\ [][Next]_vars

\* One process that is not killed: refresh_indicators is straight-line code
\* in a single thread, every statement of its loops returns or raises, so a
\* run that has a step to take takes it
LoopStep ==
    \/ UnitEmpty
    \/ UnitCommit
    \/ \E j \in 0..(MaxDate + 1) : UnitRaises(j)
    \/ TimeframeDone
    \/ EquitiesDone
    \/ FinishRefresh

NextAlive ==
    \/ StartRefresh
    \/ LoopStep
    \/ \E f \in Feeds, d \in Dates :
            ImportBar(f.is_index, f.id, f.timeframe, d, Quote(d))
    \/ \E tf \in {"1wk", "1mo"}, is_index \in BOOLEAN : DeleteInvalid(tf, is_index)

SpecAlive == Init /\ [][NextAlive]_vars /\ WF_vars(LoopStep)

\* The same process with the failures of the connection, of the symbol
\* lists and of a kernel
FailingKernels == {"calculate_bollinger", "calculate_macd"}

NextFaults ==
    \/ NextAlive
    \/ \E kernel \in FailingKernels : UnitKernelRaises(kernel)
    \/ OpenRaises
    \/ SymbolsRaise
    \/ Part2
    \/ IndexSymbolsRaise
    \/ Finally

SpecFaults == Init /\ [][NextFaults]_vars

\* ------------------------------------------------------------------------
\* calculate_indicators on two frames that grow a bar at a time
\* ------------------------------------------------------------------------
BarColumns == {"date", "high", "low", "close", "adj_close"}

bars(df) ==
    Eval(df, LAMBDA d : Series([i \in 1..Len(d) |-> [c \in BarColumns |-> d[i][c]] @@ <<>>]))

NewBar(date, q) ==
    [date |-> date, high |-> q.high, low |-> q.low, close |-> q.close,
     adj_close |-> q.adj_close]

\* the frame that calculate_indicators returns: every bar with the indicator
\* columns assigned
with_indicators(df) ==
    Eval(<<df, calculate_indicators(df)>>, LAMBDA f :
        Series([i \in 1..Len(f[1]) |-> f[1][i] @@ f[2][i]]))

CalculateA(q) ==
    /\ Len(dfA) < MaxSeries
    /\ dfA' = with_indicators(Append(bars(dfA), NewBar(Len(dfA), q)))
    /\ UNCHANGED <<dbVars, loopVars, histVars, dfB, upserted, kern>>

CalculateB(q) ==
    /\ Len(dfB) < MaxSeries
    /\ dfB' = with_indicators(Append(bars(dfB), NewBar(Len(dfB), q)))
    /\ UNCHANGED <<dbVars, loopVars, histVars, dfA, upserted, kern>>

\* the bars that the two frames draw from: a rise and a fall
CalcQuotes == {Quotes[1], Quotes[2]}

NextCalc ==
    \/ \E q \in CalcQuotes : CalculateA(q)
    \/ \E q \in CalcQuotes : CalculateB(q)

SpecCalc == Init /\ [][NextCalc]_vars

\* ------------------------------------------------------------------------
\* SQL_INSERT executed on a table that already holds a row with the key
\* ------------------------------------------------------------------------
\* a frame of two bars as the refresh loads it
Frame2(is_index, q1, q2) ==
    read_sql(price_upsert(price_upsert({}, is_index, 1, "1d", 0, q1),
                          is_index, 1, "1d", 1, q2), 1, "1d")

\* a row of an indicator table (CREATE TABLE equity_indicators /
\* index_indicators): the key, the indicator values and, for equities, is_final
indicator_row(table, bar, ind, is_final) ==
    [c \in TableColumns(table) |->
        IF c = "is_final" THEN is_final
        ELSE IF c \in KeyColumns THEN bar[c] ELSE ind[c]] @@ <<>>

\* the bindings of a row in the column order of the statement
bindings(stmt, row) ==
    Series([k \in 1..Len(stmt.columns) |-> row[stmt.columns[k]]])

\* a row is found in the table: its values come from a frame of two bars and
\* its is_final is any value that the BOOLEAN column holds
StoredRow(is_index, q1, q2, stored_final) ==
    /\ upserted.table = "none"
    /\ is_index => stored_final = 1
    /\ \E table \in {Part(IF is_index THEN "indices" ELSE "equities").indicator_table} :
           \E df \in {Frame2(is_index, q1, q2)} :
           \E row \in {indicator_row(table, df[2], calculate_indicators(df)[2],
                                     stored_final)} :
               /\ upserted' = [table |-> table, new |-> row, raised |-> FALSE,
                               after |-> {row}]
               /\ UNCHANGED <<dbVars, loopVars, histVars, dfA, dfB, kern>>

\* the row of a frame with the same last date is upserted on the table; the
\* record is the one refresh_indicators builds, or the bindings of the new
\* row in the order of the statement
UpsertOnExistingKey(q1, q2, as_built) ==
    /\ upserted.table # "none"
    /\ \E is_index \in {upserted.table = "index_indicators"} :
           \E p \in {IF is_index THEN "indices" ELSE "equities"} :
           \E stmt \in {SQL_INSERT[Part(p).sql]} :
           \E df \in {Frame2(is_index, q1, q2)} :
           \E new \in {indicator_row(upserted.table, df[2], calculate_indicators(df)[2],
                                     IF is_index THEN 1 ELSE df[2].is_final)} :
           \E rec \in {IF as_built THEN records(p, 1, "1d", df)[2]
                       ELSE bindings(stmt, new)} :
           \E res \in {execute(upserted.after, stmt, upserted.table, rec)} :
               /\ upserted' = [table |-> upserted.table, new |-> new,
                               raised |-> res.raised, after |-> res.rows]
               /\ UNCHANGED <<dbVars, loopVars, histVars, dfA, dfB, kern>>

NextUpsert ==
    \/ \E is_index \in BOOLEAN, q1, q2 \in Range(Quotes), stored_final \in {0, 1} :
          StoredRow(is_index, q1, q2, stored_final)
    \/ \E q1, q2 \in Range(Quotes), as_built \in BOOLEAN :
          UpsertOnExistingKey(q1, q2, as_built)

SpecUpsert == Init /\ [][NextUpsert]_vars

\* ------------------------------------------------------------------------
\* The kernels on one frame that grows a bar at a time
\* ------------------------------------------------------------------------
Periods == 1..MaxPeriod
Multipliers == {1, 3}

\* the bars that the frame draws from: a quiet bar, a surge and a slump
KernelQuotes ==
    { Quotes[1],
      [high |-> 150, low |-> 130, close |-> 145, adj_close |-> 145],
      [high |-> 100, low |-> 80, close |-> 85, adj_close |-> 85] }

\* bar n of a rally: every close above the close before
RallyBar(n) ==
    [date |-> n, high |-> 106 + 2 * n, low |-> 104 + 2 * n, close |-> 105 + 2 * n,
     adj_close |-> 105 + 2 * n]

IsRally(df) == \A i \in 1..Len(df) : df[i] = RallyBar(i - 1)

Kernels(df, period, multiplier) ==
    kern' = [df |-> df, period |-> period, multiplier |-> multiplier,
             out |-> KernelOutputs(df, period, multiplier)]

\* a bar of the feed is appended and every kernel runs on the frame
RunKernels(q, period, multiplier) ==
    /\ Len(kern.df) < MaxSeries
    /\ Kernels(Append(kern.df, NewBar(Len(kern.df), q)), period, multiplier)
    /\ UNCHANGED <<dbVars, loopVars, histVars, dfA, dfB, upserted>>

\* the rally goes on for a bar and every kernel runs on the frame
RunKernelsOnRally(period, multiplier) ==
    /\ Len(kern.df) < MaxRun
    /\ IsRally(kern.df)
    /\ Kernels(Append(kern.df, RallyBar(Len(kern.df))), period, multiplier)
    /\ UNCHANGED <<dbVars, loopVars, histVars, dfA, dfB, upserted>>

NextKernels ==
    \/ \E q \in KernelQuotes : \E period \in Periods : \E multiplier \in Multipliers :
          RunKernels(q, period, multiplier)
    \/ \E period \in Periods : \E multiplier \in Multipliers :
          RunKernelsOnRally(period, multiplier)

SpecKernels == Init /\ [][NextKernels]_vars

\* ------------------------------------------------------------------------
\* Notions used by the properties
\* ------------------------------------------------------------------------
IndicatorTableNames == {"equity_indicators", "index_indicators"}
PriceOf(table) ==
    IF table = "equity_indicators" THEN "equity_price_data" ELSE "index_price_data"
SameKey(a, b) == a.id = b.id /\ a.timeframe = b.timeframe /\ a.date = b.date

\* the refresh cursor of the spec: MAX(date) over a whole indicator table
HasCursor(rows) == rows # {}
Cursor(rows) == CHOOSE d \in {r.date : r \in rows} : \A r \in rows : r.date <= d

\* the price bars of the series of row r up to its date, oldest first
HistoryUpTo(table, r) ==
    OrderByDate({b \in db[PriceOf(table)] :
                    b.id = r.id /\ b.timeframe = r.timeframe /\ b.date <= r.date})

IndicatorValues(r) == [c \in Range(IndicatorColumns) |-> r[c]]

\* the indicator values of the last bar of a history, computed from scratch
FullRecompute(h) == calculate_indicators(h)[Len(h)]

InRun == pc \in {"equities", "indices", "done"}

\* the units of one run in loop order
PartUnits(p) ==
    LET ids == Part(p).symbol_ids
        n == Len(ids)
    IN  [k \in 1..(Len(FREQUENCIES) * n) |->
            [part |-> p, timeframe |-> FREQUENCIES[((k - 1) \div n) + 1],
             id |-> ids[((k - 1) % n) + 1]]]
AllUnits == PartUnits("equities") \o PartUnits("indices")
UnitOf(a) == [part |-> a.part, timeframe |-> a.timeframe, id |-> a.id]
UnitPos(u) == CHOOSE k \in DOMAIN AllUnits : AllUnits[k] = u

\* the keys of the price bars of a unit, as keys of its indicator table
UnitKeys(u) ==
    {TKey(Part(u.part).indicator_table, b.id, b.timeframe, b.date) :
        b \in {x \in db[Part(u.part).price_table] :
                 x.id = u.id /\ x.timeframe = u.timeframe}}

C2_FailureIsolation ==
    pc = "done" =>
        \A i \in DOMAIN attempted :
            attempted[i].outcome = "error" =>
                \A k \in (UnitPos(UnitOf(attempted[i])) + 1)..Len(AllUnits) :
                    \E j \in (i + 1)..Len(attempted) :
                        UnitOf(attempted[j]) = AllUnits[k]

C2_Witness ==
    /\ pc = "done"
    /\ \E i, j \in DOMAIN attempted :
          /\ i < j
          /\ attempted[i].outcome = "error"
          /\ attempted[i].part = "indices"
          /\ attempted[j].outcome = "ok"
    /\ \E i \in DOMAIN attempted :
          /\ attempted[i].outcome = "error"
          /\ attempted[i].part = "equities"
          /\ attempted[i].id = EquitySymbols[1]

\* ------------------------------------------------------------------------
\* C3  Coverage: after a run without storage fault every price bar of every
\* equity and of every index has exactly one indicator row with its key.
\* ------------------------------------------------------------------------
C3_Coverage ==
    (pc = "done" /\ faults = 0) =>
        \A table \in IndicatorTableNames : \A b \in db[PriceOf(table)] :
            Cardinality({r \in db[table] : SameKey(r, b)}) = 1

UniqueKeys ==
    \A table \in IndicatorTableNames : \A r1, r2 \in db[table] :
        SameKey(r1, r2) => r1 = r2

C5_RerunSafe ==
    /\ UniqueKeys
    /\ rerun => IndicatorTables(db) = start

C5_Witness ==
    /\ rerun
    /\ pc = "done"
    /\ faults = 0
    /\ Cardinality(db.index_indicators) > 1
    /\ \A r \in db.index_indicators :
          TKey("index_indicators", r.id, r.timeframe, r.date) \in committed

\* ------------------------------------------------------------------------
\* C6  Unit atomicity: at every point of a run, the rows that the run has
\* committed for a unit are none or the rows of all price bars of the unit.
\* ------------------------------------------------------------------------
C6_UnitAtomicity ==
    InRun =>
        \A k \in DOMAIN AllUnits :
            LET mine == committed \cap UnitKeys(AllUnits[k])
            IN  mine = {} \/ mine = UnitKeys(AllUnits[k])

C8_Referential ==
    \A table \in IndicatorTableNames : \A r \in db[table] :
        \E b \in db[PriceOf(table)] : SameKey(r, b)

Min(a, b) == IF a < b THEN a ELSE b

CommonPrefix(a, b) ==
    CHOOSE n \in 0..Min(Len(a), Len(b)) :
        /\ \A i \in 1..n : a[i] = b[i]
        /\ n = Min(Len(a), Len(b)) \/ a[n + 1] # b[n + 1]

ShortPeriodRow(df, i) ==
    LET close == Col(df, "close")
        bb == calculate_bollinger(close, 2, 2)
        st == calculate_supertrend(df, 1, 3)
    IN  [rsi |-> calculate_rsi_series(close, 2)[i],
         sma |-> rolling_mean(Col(df, "adj_close"), 2)[i],
         wma |-> calculate_wma(close, 2)[i],
         ema |-> calculate_ema(close, 2)[i],
         bb_upper |-> bb.upper[i], bb_middle |-> bb.mid[i],
         bb_lower |-> bb.lower[i],
         atr |-> calculate_atr(df, 2)[i],
         supertrend |-> st.supertrend[i], supertrend_dir |-> st.direction[i]]

C10_NoLookAhead ==
    \A i \in 1..CommonPrefix(bars(dfA), bars(dfB)) :
        /\ dfA[i] = dfB[i]
        /\ ShortPeriodRow(bars(dfA), i) = ShortPeriodRow(bars(dfB), i)

C10_Witness ==
    LET n == CommonPrefix(bars(dfA), bars(dfB))
    IN  /\ n >= 2
        /\ Len(dfA) > n
        /\ Len(dfB) > n
        /\ dfA[n].pct_price_change # NaN
        /\ dfA[n + 1].macd # dfB[n + 1].macd
        /\ ShortPeriodRow(bars(dfA), n).supertrend # NaN
        /\ ShortPeriodRow(bars(dfA), n).rsi # ShortPeriodRow(bars(dfA), n + 1).rsi

\* ------------------------------------------------------------------------
\* C11  Price tables are read-only to the refresh: no step of a refresh run
\* (its start, a unit that is skipped, committed or failed, the end of a
\* timeframe or of a part, its return) changes equity_price_data or
\* index_price_data.
\* ------------------------------------------------------------------------
PriceTables(d) ==
    [equity_price_data |-> d.equity_price_data,
     index_price_data |-> d.index_price_data]

RefreshStep == pc' \in {"equities", "indices", "done"}

C11_PricesReadOnly == [][RefreshStep => PriceTables(db') = PriceTables(db)]_vars

C11_Witness ==
    /\ pc = "done"
    /\ db.equity_price_data # {}
    /\ db.index_price_data # {}
    /\ committed # {}
    /\ \E i, j \in DOMAIN attempted :
          /\ attempted[i].outcome = "error"
          /\ attempted[j].outcome = "ok"

\* ------------------------------------------------------------------------
\* C12  Partition isolation: every row that a unit step of a run writes or
\* changes lies in the indicator table of the unit's group, carries the
\* unit's entity id and timeframe, and is a row of the result of upserting,
\* into an empty table, the records computed from the bars of that entity
\* and timeframe alone.
\* ------------------------------------------------------------------------
OwnBars(u) ==
    {b \in db[Part(u.part).price_table] : b.id = u.id /\ b.timeframe = u.timeframe}

\* the rows of a unit computed from nothing but its own bars
Alone(u) ==
    Eval(records(u.part, u.id, u.timeframe, OrderByDate(OwnBars(u))), LAMBDA recs :
        executemany({}, SQL_INSERT[Part(u.part).sql], Part(u.part).indicator_table,
                    recs, Len(recs)).rows)

UnitStep == InLoop /\ pc' = pc

KHigh == Col(kern.df, "high")
KLow == Col(kern.df, "low")
KClose == Col(kern.df, "close")
HelperBands == final_bands(kern.df, kern.period, kern.multiplier)
TrendBands == supertrend_bands(KHigh, KLow, KClose, kern.period, kern.multiplier)

\* ------------------------------------------------------------------------
\* C13  Supertrend initial state: for every non-empty frame both Supertrend
\* kernels, calculate_supertrend and trend.supertrend, return direction -1
\* at the first bar and the final upper band of the first bar as the first
\* supertrend value (rounded to 2 decimals where the kernel rounds).
\* ------------------------------------------------------------------------
C13_InitialDown ==
    Len(kern.df) > 0 =>
        /\ kern.out.calculate_supertrend.direction[1] = -1
        /\ kern.out.calculate_supertrend.supertrend[1] = round2(HelperBands.ub[1])
        /\ kern.out.supertrend.trend[1] = -1
        /\ kern.out.supertrend.st[1] = TrendBands.final_upper[1]

\* ------------------------------------------------------------------------
\* C14  Supertrend direction step of calculate_supertrend: at every bar
\* after the first, if the close is strictly greater than the previous
\* supertrend value (the final band the previous bar selected, before
\* rounding) the direction is +1 and the supertrend is the final lower band
\* of the bar, otherwise (a tie and an undefined previous value included)
\* the direction is -1 and the supertrend is the final upper band; the
\* returned supertrend is that band rounded to 2 decimals.
\* ------------------------------------------------------------------------
\* the supertrend value of bar i before rounding
PrevSupertrend(bands, direction, i) ==
    IF direction[i] = 1 THEN bands.lb[i] ELSE bands.ub[i]

\* close[i] > supertrend[i - 1]
ClosesAbove(bands, direction, close, i) ==
    /\ PrevSupertrend(bands, direction, i - 1) # NaN
    /\ close[i] > PrevSupertrend(bands, direction, i - 1)

C14_DirectionStep ==
    \E bands \in {HelperBands} : \E close \in {KClose} :
    \E st \in {kern.out.calculate_supertrend} :
        \A i \in 2..Len(close) :
            IF ClosesAbove(bands, st.direction, close, i)
            THEN st.direction[i] = 1 /\ st.supertrend[i] = round2(bands.lb[i])
            ELSE st.direction[i] = -1 /\ st.supertrend[i] = round2(bands.ub[i])

\* a frame with a turn up and, on a close at or below the previous
\* supertrend, a turn down
C14_Witness ==
    \E bands \in {HelperBands} : \E close \in {KClose} :
    \E st \in {kern.out.calculate_supertrend} :
        /\ \E i \in 2..Len(close) :
              st.direction[i] = 1 /\ st.direction[i - 1] = -1
        /\ \E i \in 2..Len(close) :
              st.direction[i] = -1 /\ st.direction[i - 1] = 1
        /\ \E i \in 2..Len(close) :
              /\ close[i] <= PrevSupertrend(bands, st.direction, i - 1)
              /\ st.direction[i] = -1

\* ------------------------------------------------------------------------
\* C15  Supertrend band ratchet: in calculate_supertrend and in
\* trend.supertrend, at every bar after the first, a final upper band that
\* the previous close has not crossed (close[t-1] <= finalUpper[t-1]) does
\* not rise, and a final lower band that the previous close has not
\* crossed (close[t-1] >= finalLower[t-1]) does not fall.
\* ------------------------------------------------------------------------
Ratchet(upper, lower, close) ==
    \A i \in 2..Len(close) :
        /\ (upper[i - 1] # NaN /\ close[i - 1] <= upper[i - 1]) =>
                (upper[i] # NaN /\ upper[i] <= upper[i - 1])
        /\ (lower[i - 1] # NaN /\ close[i - 1] >= lower[i - 1]) =>
                (lower[i] # NaN /\ lower[i] >= lower[i - 1])

C15_BandRatchet ==
    \E close \in {KClose} :
        /\ \E bands \in {HelperBands} : Ratchet(bands.ub, bands.lb, close)
        /\ \E bands \in {TrendBands} :
              Ratchet(bands.final_upper, bands.final_lower, close)

\* ------------------------------------------------------------------------
\* C16  RSI zero-loss policy: at every position where the Wilder averages of
\* gain and loss are defined and the average loss is 0, calculate_rsi_series
\* returns exactly 100; on a rally of 15 bars and more the averages of
\* period 14 are defined at the last bar, the average loss is 0 and rsi_14
\* is 100.
\* ------------------------------------------------------------------------
\* avg_gain and avg_loss of calculate_rsi_series
wilder_averages(close, period) ==
    Eval(diff(close), LAMBDA delta :
        [avg_gain |-> ewm_mean(clip_lower0(delta), 1, period, period),
         avg_loss |-> ewm_mean(neg(clip_upper0(delta)), 1, period, period)])

ZeroLoss(avg, i) ==
    avg.avg_gain[i] # NaN /\ avg.avg_loss[i] # NaN /\ avg.avg_loss[i] = 0

C16_ZeroLossIsHundred ==
    \E close \in {KClose} :
        /\ \E avg \in {wilder_averages(close, kern.period)} :
              \A i \in 1..Len(close) :
                  ZeroLoss(avg, i) => kern.out.calculate_rsi_series[i] = Hundred
        /\ \E avg \in {wilder_averages(close, 14)} :
              /\ \A i \in 1..Len(close) :
                    ZeroLoss(avg, i) => kern.out.rsi_14[i] = Hundred
              /\ (IsRally(kern.df) /\ Len(close) > 14) =>
                    /\ ZeroLoss(avg, Len(close))
                    /\ kern.out.rsi_14[Len(close)] = Hundred

\* a rally over a whole period-14 window
C16_Witness ==
    /\ IsRally(kern.df)
    /\ Len(kern.df) > 14
    /\ ZeroLoss(wilder_averages(KClose, 14), Len(kern.df))
    /\ kern.out.rsi_14[Len(kern.df)] = Hundred

\* ------------------------------------------------------------------------
\* C17  Bollinger ordering: at every position where the three bands are
\* defined, upper >= middle >= lower, for the rounded bands that
\* calculate_bollinger returns, for the bands that
\* volatility.bollinger_bands returns, and for these rounded to 2 decimals.
\* ------------------------------------------------------------------------
BandsDefined(bb, i) == bb.upper[i] # NaN /\ bb.mid[i] # NaN /\ bb.lower[i] # NaN

Ordered(bb, i) == bb.upper[i] >= bb.mid[i] /\ bb.mid[i] >= bb.lower[i]

Rounded(bb) ==
    [upper |-> sround2(bb.upper), mid |-> sround2(bb.mid), lower |-> sround2(bb.lower)]

C17_BollingerOrdering ==
    \A bb \in {kern.out.calculate_bollinger, kern.out.bollinger_bands,
                Rounded(kern.out.bollinger_bands)} :
        \A i \in 1..Len(kern.df) : BandsDefined(bb, i) => Ordered(bb, i)

\* one frame with a window of distinct closes, where the bands lie apart,
\* a window of equal closes, where they coincide, and a band that rounding
\* changes
C17_Witness ==
    \E bb \in {kern.out.calculate_bollinger} :
        /\ \E i \in 1..Len(kern.df) :
              /\ BandsDefined(bb, i)
              /\ bb.upper[i] > bb.mid[i]
              /\ bb.mid[i] > bb.lower[i]
        /\ \E i \in 1..Len(kern.df) :
              /\ BandsDefined(bb, i)
              /\ bb.upper[i] = bb.lower[i]
        /\ \E i \in 1..Len(kern.df) :
              /\ BandsDefined(kern.out.bollinger_bands, i)
              /\ kern.out.bollinger_bands.upper[i] # bb.upper[i]

\* ------------------------------------------------------------------------
\* C18  EMA seeding and recurrence: on a series without gaps utils.ema
\* returns the first input at the first position and at every later
\* position a * x[t] + (1 - a) * E[t-1] with a = 2 / (span + 1);
\* calculate_ema returns the same values rounded to 2 decimals, so that an
\* input in hundredths starts both unchanged.  On the rally 1.05, 1.07,
\* 1.09 the span-3 average starts at 1.05 and goes on with 1.06.
\* ------------------------------------------------------------------------
\* E[1] = x[1], E[t] = (2 * x[t] + (span - 1) * E[t-1]) / (span + 1)
EmaRecurrence(x, span) ==
    LET E[i \in 1..Len(x)] ==
            IF i = 1 THEN x[1]
            ELSE DivR(2 * x[i] + (span - 1) * E[i - 1], span + 1)
    IN  Series(E)

C18_EmaRecurrence ==
    \E close \in {KClose} : \E E \in {EmaRecurrence(KClose, kern.period)} :
        /\ kern.out.ema = E
        /\ kern.out.calculate_ema = sround2(E)
        /\ Len(close) > 0 =>
              /\ kern.out.ema[1] = close[1]
              /\ kern.out.calculate_ema[1] = close[1]
        /\ (IsRally(kern.df) /\ Len(close) > 1 /\ kern.period = 3) =>
              /\ kern.out.ema[1] = 105 * Prec
              /\ kern.out.ema[2] = 106 * Prec

\* the rally of three bars under span 3: the third value lies between the
\* inputs and calculate_ema rounds it
C18_Witness ==
    /\ IsRally(kern.df)
    /\ Len(kern.df) = 3
    /\ kern.period = 3
    /\ kern.out.ema[1] = KClose[1]
    /\ kern.out.ema[3] > KClose[1]
    /\ kern.out.ema[3] < KClose[3]
    /\ kern.out.calculate_ema[3] # kern.out.ema[3]

\* ------------------------------------------------------------------------
\* C19  MACD precision: the macd line and the signal line that
\* calculate_macd returns for the indicator row are the lines before
\* rounding, rounded to 4 decimals.
\* ------------------------------------------------------------------------
\* Series.round(4): nearest hundredth of a hundredth, half to even
round4(x) ==
    Eval(x, LAMBDA v :
        IF v = NaN THEN NaN ELSE DivR(RoundHalfEven(v * 100, Prec) * Prec, 100))

C19_MacdFourDecimals ==
    \A i \in 1..Len(kern.df) :
        /\ kern.out.calculate_macd.macd[i] = round4(kern.out.macd.macd[i])
        /\ kern.out.calculate_macd.signal[i] = round4(kern.out.macd.signal[i])

\* ------------------------------------------------------------------------
\* C20  Run report: every DONE line of a run reports, for its group and
\* timeframe, as symbols the number of units of that group and timeframe
\* that the run upserted and committed, and as rows the number of price
\* bars (one row each) of exactly those units, all of whose keys are
\* committed; units without bars and failed units count in neither, and
\* nothing of an earlier timeframe is counted.
\* ------------------------------------------------------------------------
\* the units of a DONE line that ran to their commit
DoneUnits(line) ==
    {UnitOf(attempted[i]) : i \in {j \in DOMAIN attempted :
        /\ attempted[j].part = line.part
        /\ attempted[j].timeframe = line.timeframe
        /\ attempted[j].outcome = "ok"}}

C21_DefinedAfterWarmUp ==
    \E bands \in {HelperBands} : \E st \in {kern.out.calculate_supertrend} :
        \A i \in 1..Len(kern.df) :
            IF i < kern.period
            THEN bands.ub[i] = NaN /\ bands.lb[i] = NaN /\ st.supertrend[i] = NaN
            ELSE bands.ub[i] # NaN /\ bands.lb[i] # NaN /\ st.supertrend[i] # NaN

\* ------------------------------------------------------------------------
\* C22  RSI warm-up: calculate_rsi_series returns NaN at each of the first
\* period bars, where fewer than period price deltas are available, and a
\* number from the bar with index period on.
\* ------------------------------------------------------------------------
C22_RsiWarmUp ==
    \A i \in 1..Len(kern.df) :
        IF i <= kern.period
        THEN kern.out.calculate_rsi_series[i] = NaN
        ELSE kern.out.calculate_rsi_series[i] # NaN

\* ------------------------------------------------------------------------
\* C23  Wilder seed: for the gain and loss averages of calculate_rsi_series
\* and for the ATR of calculate_atr before rounding, the first defined
\* output is the arithmetic mean of the first period valid inputs, and
\* every later output is (1 - 1/period) * previous output + (1/period) *
\* current input.
\* ------------------------------------------------------------------------
\* the sum of the values of x at the positions lo..hi that hold a number
RECURSIVE ValidSum(_, _, _)
ValidSum(x, lo, hi) ==
    IF lo > hi THEN 0
    ELSE (IF x[lo] = NaN THEN 0 ELSE x[lo]) + ValidSum(x, lo + 1, hi)

\* y is x smoothed with a mean of the first period inputs as seed
MeanSeeded(x, y, period) ==
    \A i \in 1..Len(x) :
        y[i] # NaN =>
            IF i = 1 \/ y[i - 1] = NaN
            THEN y[i] = DivR(ValidSum(x, 1, i), period)
            ELSE y[i] = DivR((period - 1) * y[i - 1] + x[i], period)

C23_WilderSeed ==
    \E avg \in {wilder_averages(KClose, kern.period)} :
    \E delta \in {diff(KClose)} : \E range \in {true_range(kern.df)} :
        /\ MeanSeeded(clip_lower0(delta), avg.avg_gain, kern.period)
        /\ MeanSeeded(neg(clip_upper0(delta)), avg.avg_loss, kern.period)
        /\ MeanSeeded(range, ewm_mean(range, 1, kern.period, kern.period), kern.period)

\* ------------------------------------------------------------------------
\* C24  ATR warm-up: the ATR of calculate_atr and the ATR of volatility.atr,
\* which is also the ATR inside trend.supertrend, are NaN at exactly the
\* first period-1 bars, and the true range of the first bar is its high
\* minus its low.
\* ------------------------------------------------------------------------
C24_AtrWarmUp ==
    /\ \A i \in 1..Len(kern.df) :
          /\ (i < kern.period) <=> (kern.out.calculate_atr[i] = NaN)
          /\ (i < kern.period) <=> (kern.out.atr[i] = NaN)
    /\ Len(kern.df) > 0 =>
          /\ true_range(kern.df)[1] = KHigh[1] - KLow[1]
          /\ tr(KHigh, KLow, KClose)[1] = KHigh[1] - KLow[1]

\* ------------------------------------------------------------------------
\* C30  Supertrend band selection: at every bar the direction that
\* calculate_supertrend and trend.supertrend return is +1 or -1, and the
\* supertrend is the final lower band of the bar when the direction is +1
\* and the final upper band when it is -1; calculate_supertrend returns
\* that band rounded to 2 decimals.
\* ------------------------------------------------------------------------
Selected(direction, upper, lower, i) == IF direction[i] = 1 THEN lower[i] ELSE upper[i]

C30_BandSelection ==
    \E hb \in {HelperBands} : \E tb \in {TrendBands} :
    \E hs \in {kern.out.calculate_supertrend} : \E ts \in {kern.out.supertrend} :
        \A i \in 1..Len(kern.df) :
            /\ hs.direction[i] \in {1, -1}
            /\ hs.supertrend[i] = round2(Selected(hs.direction, hb.ub, hb.lb, i))
            /\ ts.trend[i] \in {1, -1}
            /\ ts.st[i] = Selected(ts.trend, tb.final_upper, tb.final_lower, i)

\* a frame on which each kernel has a bar in either direction, with bands
\* that are numbers and differ
C30_Witness ==
    \E hb \in {HelperBands} : \E tb \in {TrendBands} :
    \E hs \in {kern.out.calculate_supertrend} : \E ts \in {kern.out.supertrend} :
        /\ \E i, j \in 1..Len(kern.df) :
              /\ hs.direction[i] = 1 /\ hs.direction[j] = -1
              /\ hb.lb[i] # NaN /\ hb.ub[j] # NaN
              /\ hb.lb[i] # hb.ub[i]
        /\ \E i, j \in 1..Len(kern.df) :
              /\ ts.trend[i] = 1 /\ ts.trend[j] = -1
              /\ tb.final_lower[i] # tb.final_upper[i]

\* ------------------------------------------------------------------------
\* C26  The two Supertrend flip rules are not equivalent.  Both are
\* taken from their loops and applied to the same final bands, the same
\* closes and the same direction at the first bar:
\* calculate_supertrend_direction compares close[t] with the previous
\* supertrend value (indicators_helper.py 148-160), supertrend_trend is
\* the band-crossing rule with persistence (trend.py 48-58).
\* ------------------------------------------------------------------------
calculate_supertrend_direction(upper, lower, close, first) ==
    LET st[i \in 1..Len(close)] ==
            IF i = 1
            THEN [supertrend |-> IF first = 1 THEN lower[1] ELSE upper[1], direction |-> first]
            ELSE Eval(st[i - 1].supertrend, LAMBDA prev_st :
                    IF prev_st # NaN /\ close[i] > prev_st
                    THEN [supertrend |-> lower[i], direction |-> 1]
                    ELSE [supertrend |-> upper[i], direction |-> -1])
    IN  Eval(Series(st), LAMBDA r : Series([i \in 1..Len(r) |-> r[i].direction]))

\* the band-crossing rule without persistence of the trend in an up trend:
\* a close that is not above the previous lower band turns the trend down
supertrend_trend_by_value(upper, lower, close, first) ==
    calculate_supertrend_direction(upper, lower, close, first)

supertrend_trend(upper, lower, close, first) ==
    LET trend[i \in 1..Len(close)] ==
            IF i = 1 THEN first
            ELSE IF upper[i - 1] # NaN /\ close[i] > upper[i - 1] THEN 1
            ELSE IF lower[i - 1] # NaN /\ close[i] < lower[i - 1] THEN -1
            ELSE trend[i - 1]
    IN  Series(trend)

\* a quiet bar, a surge and a quiet bar again: the close of the third bar
\* falls exactly on the lower band of the second
FlipFrame ==
    << [date |-> 0] @@ Quotes[1],
       [date |-> 1, high |-> 150, low |-> 130, close |-> 145, adj_close |-> 145],
       [date |-> 2] @@ Quotes[1] >>

OnFlipFrame == kern.df = FlipFrame /\ kern.period = 2 /\ kern.multiplier = 1

\* the first bar at which two direction series differ
FirstDifference(a, b, t) == t > 1 /\ a[t] # b[t] /\ \A k \in 1..(t - 1) : a[k] = b[k]

\* On FlipFrame with period 2 and multiplier 1 the two rules, run on the
\* final bands of trend.supertrend from either direction at the first bar,
\* agree at the second bar and differ at the third: the value rule turns
\* down, the crossing rule stays up.  On every frame, the first bar at
\* which they differ follows an up bar and has the value rule down and the
\* crossing rule up.
C26_FlipRulesDiverge ==
    \E tb \in {TrendBands} : \E close \in {KClose} : \A first \in {1, -1} :
    \E a \in {calculate_supertrend_direction(tb.final_upper, tb.final_lower, close, first)} :
    \E b \in {supertrend_trend(tb.final_upper, tb.final_lower, close, first)} :
        /\ OnFlipFrame => a[2] = 1 /\ b[2] = 1 /\ a[3] = -1 /\ b[3] = 1
        /\ \A t \in 1..Len(close) :
              FirstDifference(a, b, t) => a[t - 1] = 1 /\ a[t] = -1 /\ b[t] = 1

C26_Witness ==
    /\ OnFlipFrame
    /\ \E tb \in {TrendBands} :
          /\ tb.final_lower[2] = KClose[3]
          /\ \A first \in {1, -1} :
                FirstDifference(
                    calculate_supertrend_direction(tb.final_upper, tb.final_lower, KClose, first),
                    supertrend_trend(tb.final_upper, tb.final_lower, KClose, first), 3)

\* ------------------------------------------------------------------------
\* C28  Record/statement alignment: for the equity and for the index
\* pipeline every record that refresh_indicators builds for the upsert has
\* as many values as the insert statement has placeholders, and they are
\* the values of the row in the column order of the statement.
\* ------------------------------------------------------------------------
Aligned(p, df) ==
    \E stmt \in {SQL_INSERT[Part(p).sql]} : \E recs \in {records(p, 1, "1d", df)} :
    \E ind \in {calculate_indicators(df)} :
        \A i \in 1..Len(df) :
            /\ Len(recs[i]) = stmt.placeholders
            /\ recs[i] = bindings(stmt, indicator_row(Part(p).indicator_table, df[i], ind[i],
                                                     IF p = "indices" THEN 1 ELSE df[i].is_final))

C28_RecordAlignment ==
    upserted.table # "none" =>
        \E is_index \in {upserted.table = "index_indicators"} :
            \A q1, q2 \in Range(Quotes) :
                Aligned(IF is_index THEN "indices" ELSE "equities", Frame2(is_index, q1, q2))

\* ------------------------------------------------------------------------
\* C27  Loop order: the units attempted so far in a run are always the
\* first units of the loop order (equities before indices, the timeframes
\* 1d, 1wk, 1mo as the outer loop, the symbols in loaded order as the inner
\* loop), each once; a run has ended only when every unit was attempted;
\* and a run that was started ends.
\* ------------------------------------------------------------------------
InLoopOrder ==
    /\ Len(attempted) <= Len(AllUnits)
    /\ \A k \in DOMAIN attempted : UnitOf(attempted[k]) = AllUnits[k]

EndsAfterLastUnit == pc = "done" => Len(attempted) = Len(AllUnits)

C27_LoopOrder ==
    /\ [](InLoopOrder /\ EndsAfterLastUnit)
    /\ (Running ~> pc = "done")

C27_Witness ==
    /\ pc = "done"
    /\ Len(attempted) = Len(AllUnits)
    /\ \E i, j, k \in DOMAIN attempted :
          /\ attempted[i].outcome = "error"
          /\ attempted[j].outcome = "ok"
          /\ attempted[k].outcome = "empty"
          /\ attempted[i].part = "equities"
          /\ attempted[j].part = "indices"

\* ------------------------------------------------------------------------
\* C25  Kernel failure skips the series: a unit in which an indicator
\* kernel raised has, in that run, no row written, and the rows stored for
\* it before the run keep their values: its rows in the indicator table are
\* the ones the table held when the run began.
\* ------------------------------------------------------------------------
UnitRows(tables, u) ==
    {r \in tables[Part(u.part).indicator_table] : r.id = u.id /\ r.timeframe = u.timeframe}

C25_KernelFailureSkips ==
    \A u \in proc.kernel_raised :
        /\ UnitRows(db, u) = UnitRows(start, u)
        /\ UnitRows(tx, u) = UnitRows(start, u)

\* ------------------------------------------------------------------------
\* C29  Clean exit: a call of refresh_indicators that has ended has
\* returned normally, whatever failed, and a connection that it opened was
\* closed once.
\* ------------------------------------------------------------------------
C29_CleanExit ==
    (pc = "done" /\ proc.exit # "none") =>
        /\ proc.exit = "returned"
        /\ proc.conn # "open"
        /\ proc.conn = "closed" => proc.closes = 1
====
